---- MODULE Spec2Model ----
(***************************************************************************)
(* A model of mixmatch.py: the construction of the MixMatch training graph *)
(* (MixMatch.model), the execution of the train_op it returns, the label   *)
(* guesser (MixMatch.guess_label) and the warm-up of the matching weight.  *)
(*                                                                         *)
(* Real numbers are exact rationals <<numerator, denominator>> where the   *)
(* claim is about a value, and integers in a fixed-point unit where only   *)
(* the order of reads and writes matters.                                  *)
(***************************************************************************)
EXTENDS Integers, Sequences, FiniteSets

VARIABLES
    \* --- construction of the graph (MixMatch.model) ---
    cfg,          \* the arguments of model(): nu, warmup_kimg, batch, has_update
    bpc,          \* the line model() has reached
    ramp_den,     \* warmup_kimg << 10, the divisor of the ramp built at line 81
    update_ops,   \* the collection tf.GraphKeys.UPDATE_OPS
    skip_ops,     \* line 104
    post_ops,     \* lines 106, 124-129
    batches,      \* line 103: the interleaved inputs, then the per-pass logits
    logits,       \* lines 105-109
    train_op,     \* line 133: the operations the returned train_op waits for
    executed,     \* the operations one run of train_op has executed
    \* --- execution of the graph ---
    hp,           \* lr, wd, ema of this run
    run,          \* store, fired operations and values read by one step
    pc,           \* "idle" | "running" | "failed"
    stepNo,       \* completed or attempted steps
    pre,          \* the store when the current step started
    committed,    \* the store left by the last completed step
    evalRead,     \* what the last classify_op / classify_raw read
    runB,         \* a second execution of the same step from the same store
    \* --- the warm-up of the matching weight ---
    wcfg,         \* w_match, warmup_kimg, batch, loss_xe, loss_l2u
    step,         \* self.step: the processed-example count
    \* --- the label guesser ---
    gin,          \* nu views of batch softmax rows
    guess         \* the EasyDict guess_label returns

buildVars == <<cfg, bpc, ramp_den, update_ops, skip_ops, post_ops, batches, logits,
               train_op, executed>>
runVars   == <<hp, run, pc, stepNo, pre, committed, evalRead, runB>>
warmVars  == <<wcfg, step>>
guessVars == <<gin, guess>>
vars      == <<buildVars, runVars, warmVars, guessVars>>

\* ---------------------------------------------------------------- bounds
MaxNu    == 2
MaxBatch == 4
BnLayers == 1

\* ------------------------------------------------------------- sequences
RECURSIVE Flatten(_)
Flatten(ss) == IF ss = <<>> THEN <<>> ELSE Head(ss) \o Flatten(Tail(ss))

Range(s) == {s[i] : i \in DOMAIN s}

\* --------------------------------------------------- libml.layers.interleave
\* The example count of each of the nu+1 groups a batch is cut into.
interleave_groups(batch, nu) ==
    [p \in 1..(nu + 1) |->
        (batch \div (nu + 1))
        + (IF p > (nu + 1) - (batch % (nu + 1)) THEN 1 ELSE 0)]

RECURSIVE SumGroups(_, _)
SumGroups(g, p) == IF p = 0 THEN 0 ELSE g[p] + SumGroups(g, p - 1)

interleave_offsets(batch, nu) ==
    [p \in 0..(nu + 1) |-> SumGroups(interleave_groups(batch, nu), p)]

\* Group p of every batch i > 1 is exchanged with group i of batch 1.
interleave(xy, batch) ==
    LET nu   == Len(xy) - 1
        off  == interleave_offsets(batch, nu)
        part == [v \in 1..(nu + 1) |->
                   [p \in 1..(nu + 1) |-> SubSeq(xy[v], off[p - 1] + 1, off[p])]]
        swap == [v \in 1..(nu + 1) |->
                   [p \in 1..(nu + 1) |->
                      IF v = 1 /\ p > 1 THEN part[p][p]
                      ELSE IF v > 1 /\ p = v THEN part[1][p]
                      ELSE part[v][p]]]
    IN  [v \in 1..(nu + 1) |-> Flatten(swap[v])]

\* ------------------------------------------------------------ the classifier
\* The update operations one training=True pass registers: one per
\* batch-normalization layer, tagged with the pass that created it.
\* A training=False pass normalizes with the running statistics and registers
\* none.
BnUpdateOps(pass, training) ==
    IF training
      THEN [l \in 1..BnLayers |-> [kind |-> "bn", pass |-> pass, layer |-> l]]
      ELSE <<>>

\* The logits of a pass: row j belongs to the example of input row j; the
\* normalization makes it depend on the pass it was computed in.
classifier(rows, pass) == [j \in DOMAIN rows |-> [of |-> rows[j], pass |-> pass]]

\* ----------------------------------------------------------- MixMatch.model
\* x << n
Shl(x, n) == x * (2 ^ n)

\* line 81: warmup_kimg << 10, the examples the warm-up lasts.
WarmupExamples(warmup_kimg) == Shl(warmup_kimg, 10)

\* The mixed streams MixMode returns: stream s, example j.
MixedStreams(batch, nu) ==
    [s \in 1..(nu + 1) |-> [j \in 1..batch |-> <<s - 1, j>>]]

BuildInit ==
    /\ cfg \in [nu : (-1)..MaxNu, warmup_kimg : (-1)..1, batch : 1..MaxBatch,
                has_update : BOOLEAN]
    /\ bpc = "start"
    /\ ramp_den = 0
    /\ update_ops = <<>>
    /\ skip_ops = <<>>
    /\ post_ops = <<>>
    /\ batches = <<>>
    /\ logits = <<>>
    /\ train_op = {}
    /\ executed = {}

BuildParked ==
    /\ cfg = [nu |-> 0, warmup_kimg |-> 0, batch |-> 0, has_update |-> FALSE]
    /\ bpc = "off"
    /\ ramp_den = 0
    /\ update_ops = <<>>
    /\ skip_ops = <<>>
    /\ post_ops = <<>>
    /\ batches = <<>>
    /\ logits = <<>>
    /\ train_op = {}
    /\ executed = {}

\* lines 70-83: the placeholders and the ramp of w_match. A negative
\* dimension is refused by tf.placeholder; warmup_kimg is not looked at.
Placeholders ==
    /\ bpc = "start"
    /\ IF cfg.nu < 0
         THEN bpc' = "error" /\ UNCHANGED ramp_den
         ELSE bpc' = "guess" /\ ramp_den' = WarmupExamples(cfg.warmup_kimg)
    /\ UNCHANGED <<cfg, update_ops, skip_ops, post_ops, batches, logits, train_op, executed>>
    /\ UNCHANGED <<runVars, warmVars, guessVars>>

\* lines 93-96 and 56-58: tf.split(y, nu) refuses nu = 0; guess_label runs
\* nu training passes, each registering its update operations.
GuessPasses(nu) == Flatten([i \in 1..nu |-> BnUpdateOps(<<"guess", i>>, TRUE)])

GuessLabelBuild ==
    /\ bpc = "guess"
    /\ IF cfg.nu = 0
         THEN bpc' = "error" /\ UNCHANGED update_ops
         ELSE bpc' = "mix" /\ update_ops' = update_ops \o GuessPasses(cfg.nu)
    /\ UNCHANGED <<cfg, ramp_den, skip_ops, post_ops, batches, logits, train_op, executed>>
    /\ UNCHANGED <<runVars, warmVars, guessVars>>

\* The snapshot taken before guess_label has run.
SkipOpsEarly(ops) == <<>>

\* lines 97-104: mixing, the first interleave, and the snapshot skip_ops.
SkipOps(ops) == ops

InterleaveInputs ==
    /\ bpc = "mix"
    /\ batches' = interleave(MixedStreams(cfg.batch, cfg.nu), cfg.batch)
    /\ skip_ops' = SkipOps(update_ops)
    /\ bpc' = "pass0"
    /\ UNCHANGED <<cfg, ramp_den, update_ops, post_ops, logits, train_op, executed>>
    /\ UNCHANGED <<runVars, warmVars, guessVars>>

\* line 105
Pass0 ==
    /\ bpc = "pass0"
    /\ logits' = <<classifier(batches[1], 0)>>
    /\ update_ops' = update_ops \o BnUpdateOps(<<"batch", 0>>, TRUE)
    /\ bpc' = "post"
    /\ UNCHANGED <<cfg, ramp_den, skip_ops, post_ops, batches, train_op, executed>>
    /\ UNCHANGED <<runVars, warmVars, guessVars>>

\* line 106
NewUpdateOps(ops, skip) == SelectSeq(ops, LAMBDA v : v \notin Range(skip))

CollectPostOps ==
    /\ bpc = "post"
    /\ post_ops' = NewUpdateOps(update_ops, skip_ops)
    /\ bpc' = "passes"
    /\ UNCHANGED <<cfg, ramp_den, update_ops, skip_ops, batches, logits, train_op, executed>>
    /\ UNCHANGED <<runVars, warmVars, guessVars>>

\* lines 107-108
OtherPasses ==
    /\ bpc = "passes"
    /\ logits' = logits \o [k \in 1..cfg.nu |-> classifier(batches[k + 1], k)]
    /\ update_ops' = update_ops
                     \o Flatten([k \in 1..cfg.nu |-> BnUpdateOps(<<"batch", k>>, TRUE)])
    /\ bpc' = "recover"
    /\ UNCHANGED <<cfg, ramp_den, skip_ops, post_ops, batches, train_op, executed>>
    /\ UNCHANGED <<runVars, warmVars, guessVars>>

\* The logits used as the passes returned them.
NoRecover(ls, batch) == ls

\* lines 109-111
RecoverLogits(ls, batch) == interleave(ls, batch)

InterleaveLogits ==
    /\ bpc = "recover"
    /\ logits' = RecoverLogits(logits, cfg.batch)
    /\ bpc' = "bundle"
    /\ UNCHANGED <<cfg, ramp_den, update_ops, skip_ops, post_ops, batches, train_op, executed>>
    /\ UNCHANGED <<runVars, warmVars, guessVars>>

\* An operation of the bundle that no classifier pass created.
GraphOp(kind) == [kind |-> kind, pass |-> <<"model", 0>>, layer |-> 0]

\* lines 121-129
BundleOps(has_update) ==
    <<GraphOp("ema"), GraphOp("p_model"), GraphOp("p_target")>>
    \o (IF has_update THEN <<GraphOp("p_data")>> ELSE <<>>)
    \o <<GraphOp("wd")>>

Bundle ==
    /\ bpc = "bundle"
    /\ post_ops' = post_ops \o BundleOps(cfg.has_update)
    /\ bpc' = "minimize"
    /\ UNCHANGED <<cfg, ramp_den, update_ops, skip_ops, batches, logits, train_op, executed>>
    /\ UNCHANGED <<runVars, warmVars, guessVars>>

\* lines 131-133: the group waits for the optimizer and for every post op.
Minimize ==
    /\ bpc = "minimize"
    /\ train_op' = {GraphOp("adam")} \cup Range(post_ops)
    /\ bpc' = "return"
    /\ UNCHANGED <<cfg, ramp_den, update_ops, skip_ops, post_ops, batches, logits, executed>>
    /\ UNCHANGED <<runVars, warmVars, guessVars>>

\* lines 135-138: classify_raw and classify_op are training=False passes.
ReturnOps ==
    /\ bpc = "return"
    /\ update_ops' = update_ops \o BnUpdateOps(<<"classify_raw", 0>>, FALSE)
                                 \o BnUpdateOps(<<"classify_op", 0>>, FALSE)
    /\ bpc' = "built"
    /\ UNCHANGED <<cfg, ramp_den, skip_ops, post_ops, batches, logits, train_op, executed>>
    /\ UNCHANGED <<runVars, warmVars, guessVars>>

\* One operation of a run of the returned train_op.
RunBuilt ==
    /\ bpc = "built"
    /\ \E op \in train_op \ executed : executed' = executed \cup {op}
    /\ UNCHANGED <<cfg, bpc, ramp_den, update_ops, skip_ops, post_ops, batches, logits, train_op>>
    /\ UNCHANGED <<runVars, warmVars, guessVars>>

BuildNext ==
    \/ Placeholders
    \/ GuessLabelBuild
    \/ InterleaveInputs
    \/ Pass0
    \/ CollectPostOps
    \/ OtherPasses
    \/ InterleaveLogits
    \/ Bundle
    \/ Minimize
    \/ ReturnOps
    \/ RunBuilt

\* ======================================================= execution of train_op
\* The variables of the graph. A name is its scope path; ema.apply and the
\* trackers create theirs with trainable=False.
Catalogue ==
    [kernel      |-> [name |-> <<"classify", "conv", "kernel">>, trainable |-> TRUE],
     bias        |-> [name |-> <<"classify", "conv", "bias">>, trainable |-> TRUE],
     moving_mean |-> [name |-> <<"classify", "bn", "moving_mean">>, trainable |-> FALSE],
     kernel_ema  |-> [name |-> <<"classify", "conv", "kernel", "ExponentialMovingAverage">>,
                      trainable |-> FALSE],
     bias_ema    |-> [name |-> <<"classify", "conv", "bias", "ExponentialMovingAverage">>,
                      trainable |-> FALSE],
     p_model     |-> [name |-> <<"p_model", "buf">>, trainable |-> FALSE],
     p_target    |-> [name |-> <<"p_target", "buf">>, trainable |-> FALSE],
     p_data      |-> [name |-> <<"p_data", "buf">>, trainable |-> FALSE]]

VarIds == DOMAIN Catalogue

\* utils.model_vars(scope): the trainable variables, all or those of a scope.
model_vars(scope) ==
    {v \in VarIds : /\ Catalogue[v].trainable
                    /\ (scope = "" \/ Catalogue[v].name[1] = scope)}

\* ema.average(v): the shadow copy ema.apply created for v.
average(v) == CASE v = "kernel" -> "kernel_ema"
                [] v = "bias"   -> "bias_ema"
                [] OTHER        -> ""

\* line 122: the variables ema.apply shadows.
EmaVars == model_vars("")

\* The decay without the test of the name.
DecayAllVars == model_vars("classify")

\* line 129: the variables the weight decay assigns.
DecayVars ==
    {v \in model_vars("classify") : "kernel" \in Range(Catalogue[v].name)}

\* A getter that ignores the shadows.
getter_live(v) == v

\* utils.getter_ema: the shadow where one exists, else the variable itself.
getter_ema(v) == IF v \in EmaVars THEN average(v) ELSE v

\* line 138: classify_op reads through ema_getter.
classify_op_getter(v) == getter_ema(v)

\* line 137: classify_raw reads through the default getter.
classify_raw_getter(v) == v

\* The variables a forward pass of the classifier reads.
ClassifierVars == {"kernel", "bias", "moving_mean"}

Op(kind, var) == [kind |-> kind, var |-> var]

AdamOps   == {Op("adam", v) : v \in model_vars("")}
EmaOps    == {Op("ema", v) : v \in EmaVars}
DecayOps  == {Op("wdwrite", v) : v \in DecayVars}
BnOps     == {Op("bn", "moving_mean")}

\* lines 104-106 and 124-129: the operations tf.group bundles.
PostOps(has_update) ==
    BnOps \cup EmaOps \cup {Op("p_model", "p_model"), Op("p_target", "p_target")}
    \cup (IF has_update THEN {Op("p_data", "p_data")} ELSE {})
    \cup DecayOps

\* The group without the control dependency on the optimizer.
GroupOnly(has_update) == PostOps(has_update)

\* lines 131-133: what the returned train_op waits for.
TrainOpDeps(has_update) == AdamOps \cup PostOps(has_update)

\* Every operation a run of train_op executes: the bundle and what it reads.
AllOps(has_update) ==
    TrainOpDeps(has_update) \cup {Op("fwd", "")}
    \cup {Op("wdread", v) : v \in DecayVars}

\* The operations an operation waits for. The post ops were created before
\* tf.control_dependencies([train_op]) was entered: they wait for their
\* inputs only.
Deps(op) ==
    CASE op.kind = "adam"    -> {Op("fwd", "")}
      [] op.kind = "wdwrite" -> {Op("wdread", op.var)}
      [] OTHER               -> {}

\* ---------------------------------------------------------------- arithmetic
RECURSIVE Gcd(_, _)
Gcd(a, b) == IF b = 0 THEN a ELSE Gcd(b, a % b)
Abs(x) == IF x < 0 THEN -x ELSE x

\* A rational in lowest terms.
Lowest(p) ==
    LET g == Gcd(Abs(p[1]), Abs(p[2]))
    IN  IF g = 0 THEN p ELSE <<p[1] \div g, p[2] \div g>>

MulRat(v, q) == (v * q[1]) \div q[2]
OneMinus(q)  == <<q[2] - q[1], q[2]>>
TimesRat(p, q) == Lowest(<<p[1] * q[1], p[2] * q[2]>>)
Sgn(x) == IF x > 0 THEN 1 ELSE IF x < 0 THEN -1 ELSE 0

\* The gradient of the loss at the value the forward pass read.
Grad(v) == v
\* The first Adam update: lr times the sign of the gradient.
AdamUpdate(g, h) == MulRat(Sgn(g), h.lr)
\* line 79: wd *= lr
wd_lr(h) == TimesRat(h.wd, h.lr)
\* line 129: v * (1 - wd)
Decayed(v, h) == MulRat(v, OneMinus(wd_lr(h)))
\* ema.apply: shadow = decay * shadow + (1 - decay) * live
EmaValue(shadow, live, h) ==
    (shadow * h.ema[1] + live * (h.ema[2] - h.ema[1])) \div h.ema[2]
\* The batch statistic of pass 0 folded into the running statistic.
BnValue(m) == (m + 4) \div 2

NoRead == [v \in VarIds |-> 0]

Fresh(store) ==
    [store |-> store, fired |-> {}, gradRead |-> NoRead, wdRead |-> NoRead,
     wdCount |-> [v \in VarIds |-> 0],
     writer |-> [v \in VarIds |-> "init"]]

Write(r, v, val, who) ==
    [r EXCEPT !.store[v] = val, !.writer[v] = who]

\* The effect of one operation on the state of a run; sample is the tag of
\* this step's guess.
Exec(r, op, h, sample) ==
    LET f == [r EXCEPT !.fired = @ \cup {op}]
    IN  CASE op.kind = "fwd" ->
               [f EXCEPT !.gradRead = [v \in VarIds |->
                            IF v \in model_vars("") THEN r.store[v] ELSE 0]]
          [] op.kind = "adam" ->
               Write(f, op.var, r.store[op.var] - AdamUpdate(Grad(r.gradRead[op.var]), h),
                     "adam")
          [] op.kind = "ema" ->
               Write(f, average(op.var),
                     EmaValue(r.store[average(op.var)], r.store[op.var], h), "ema")
          [] op.kind = "wdread" ->
               [f EXCEPT !.wdRead[op.var] = r.store[op.var]]
          [] op.kind = "wdwrite" ->
               [Write(f, op.var, Decayed(r.wdRead[op.var], h), "wd")
                  EXCEPT !.wdCount[op.var] = @ + 1]
          [] op.kind = "bn" ->
               Write(f, op.var, BnValue(r.store[op.var]), "bn")
          [] OTHER ->
               Write(f, op.var, sample, op.kind)

Ready(r, h) ==
    {op \in AllOps(h.has_update) \ r.fired : Deps(op) \subseteq r.fired}

MaxSteps == 1

InitStore ==
    [kernel |-> 8, bias |-> 4, moving_mean |-> 0, kernel_ema |-> 8, bias_ema |-> 4,
     p_model |-> 0, p_target |-> 0, p_data |-> 0]

\* The stores training can have left: the shadows lag the live values.
InitStores ==
    {[InitStore EXCEPT !.kernel_ema = k, !.bias_ema = k \div 2] : k \in {8, 12}}

NoEval == [op |-> "none", vals |-> NoRead]

RunInit ==
    /\ hp \in [lr : {<<2, 1>>}, wd : {<<1, 4>>}, ema : {<<1, 2>>}, has_update : BOOLEAN]
    /\ \E st \in InitStores :
         /\ run = Fresh(st)
         /\ pre = st
         /\ committed = st
         /\ runB = Fresh(st)
    /\ pc = "idle"
    /\ stepNo = 0
    /\ evalRead = NoEval

RunParked ==
    /\ hp = [lr |-> <<1, 1>>, wd |-> <<0, 1>>, ema |-> <<1, 1>>, has_update |-> FALSE]
    /\ run = Fresh(InitStore)
    /\ pc = "off"
    /\ stepNo = 0
    /\ pre = InitStore
    /\ committed = InitStore
    /\ evalRead = NoEval
    /\ runB = Fresh(InitStore)

\* The harness runs the step and the evaluations one after the other: a
\* session.run starts when none is in progress.
SessionIdle == pc = "idle"

\* The harness calls session.run(train_op).
StartStep ==
    /\ SessionIdle
    /\ stepNo < MaxSteps
    /\ pc' = "running"
    /\ pre' = run.store
    /\ run' = Fresh(run.store)
    /\ evalRead' = NoEval
    /\ UNCHANGED <<hp, stepNo, committed, runB>>
    /\ UNCHANGED <<buildVars, warmVars, guessVars>>

\* The runtime executes one operation whose inputs are ready.
ExecOp ==
    /\ pc = "running"
    /\ \E op \in Ready(run, hp) : run' = Exec(run, op, hp, stepNo + 1)
    /\ UNCHANGED <<hp, pc, stepNo, pre, committed, evalRead, runB>>
    /\ UNCHANGED <<buildVars, warmVars, guessVars>>

\* An operation raises: session.run aborts the step and the error leaves main.
FailOp ==
    /\ pc = "running"
    /\ Ready(run, hp) # {}
    /\ pc' = "failed"
    /\ UNCHANGED <<hp, run, stepNo, pre, committed, evalRead, runB>>
    /\ UNCHANGED <<buildVars, warmVars, guessVars>>

\* The NoOp of tf.group: session.run(train_op) returns.
GroupDone ==
    /\ pc = "running"
    /\ TrainOpDeps(hp.has_update) \subseteq run.fired
    /\ pc' = "idle"
    /\ stepNo' = stepNo + 1
    /\ committed' = run.store
    /\ UNCHANGED <<hp, run, pre, evalRead, runB>>
    /\ UNCHANGED <<buildVars, warmVars, guessVars>>

\* classify_op and classify_raw: a forward pass with training=False.
Classify(name, reads) ==
    /\ SessionIdle
    /\ evalRead' = [op |-> name,
                    vals |-> [v \in VarIds |->
                                IF v \in ClassifierVars THEN run.store[reads[v]] ELSE 0]]

\* line 138
ClassifyOp ==
    /\ Classify("classify_op", [v \in ClassifierVars |-> classify_op_getter(v)])
    /\ UNCHANGED <<hp, run, pc, stepNo, pre, committed, runB>>
    /\ UNCHANGED <<buildVars, warmVars, guessVars>>

\* line 137
ClassifyRaw ==
    /\ Classify("classify_raw", [v \in ClassifierVars |-> classify_raw_getter(v)])
    /\ UNCHANGED <<hp, run, pc, stepNo, pre, committed, runB>>
    /\ UNCHANGED <<buildVars, warmVars, guessVars>>

RunNext ==
    \/ StartStep
    \/ ExecOp
    \/ FailOp
    \/ GroupDone
    \/ ClassifyOp
    \/ ClassifyRaw


\* ==================================================== the matching-loss weight
MaxWMatch    == 3
MaxWarmKimg  == 2
MaxLoss      == 2

LessRat(p, q) == p[1] * q[2] < q[1] * p[2]
LeqRat(p, q)  == p[1] * q[2] <= q[1] * p[2]
EqRat(p, q)   == p[1] * q[2] = q[1] * p[2]
AddRat(p, q)  == Lowest(<<p[1] * q[2] + q[1] * p[2], p[2] * q[2]>>)

\* tf.clip_by_value(x, lo, hi) = min(max(x, lo), hi)
clip_by_value(x, lo, hi) ==
    LET m == IF LessRat(x, lo) THEN lo ELSE x
    IN  IF LessRat(hi, m) THEN hi ELSE m

\* The ramp without its clip.
RampNoClip(s, warmup_kimg) == <<s, WarmupExamples(warmup_kimg)>>

\* line 81: step / (warmup_kimg << 10), clipped to [0, 1].
Ramp(s, warmup_kimg) ==
    clip_by_value(<<s, WarmupExamples(warmup_kimg)>>, <<0, 1>>, <<1, 1>>)

\* line 81: w_match *= clip(...)
w_match_at(w_match, s, warmup_kimg) == TimesRat(<<w_match, 1>>, Ramp(s, warmup_kimg))

\* line 131: loss_xe + w_match * loss_l2u
TotalLoss(c, s) ==
    AddRat(<<c.loss_xe, 1>>,
           TimesRat(w_match_at(c.w_match, s, c.warmup_kimg), <<c.loss_l2u, 1>>))

WarmInit ==
    /\ wcfg \in [w_match : 0..MaxWMatch, warmup_kimg : 1..MaxWarmKimg,
                 batch : {256, 384, 512}, loss_xe : 0..MaxLoss, loss_l2u : 0..MaxLoss]
    /\ step = 0

WarmParked ==
    /\ wcfg = [w_match |-> 0, warmup_kimg |-> 1, batch |-> 0, loss_xe |-> 0, loss_l2u |-> 0]
    /\ step = 0

\* One training step adds the batch to the processed-example count.
UpdateStep ==
    /\ step <= WarmupExamples(MaxWarmKimg)
    /\ step' = step + wcfg.batch
    /\ UNCHANGED wcfg
    /\ UNCHANGED <<buildVars, runVars, guessVars>>


\* ============================================================ the label guesser
GuessNu    == 2
GuessBatch == 2

\* The softmax rows a view can hold, as numerators over SoftDen.
SoftmaxRows == {<<2, 1, 1>>, <<1, 1, 2>>, <<4, 0, 0>>}
nclass == Len(CHOOSE r \in SoftmaxRows : TRUE)

\* line 94
T == <<1, 2>>

RECURSIVE SumSeq(_)
SumSeq(s) == IF s = <<>> THEN 0 ELSE Head(s) + SumSeq(Tail(s))

SoftDen == SumSeq(CHOOSE r \in SoftmaxRows : TRUE)

\* The sum over the views in place of their mean.
reduce_sum(col) == <<SumSeq(col), SoftDen>>

\* line 62: tf.reduce_mean over the views.
reduce_mean(col) == <<SumSeq(col), SoftDen * Len(col)>>

\* line 64: tf.pow(p, 1. / T)
pow_inv(p, t) == <<p[1] ^ (t[2] \div t[1]), p[2] ^ (t[2] \div t[1])>>

\* line 61: tf.reshape(rows, [len(y), -1, nclass])
reshape(flat, n) ==
    [v \in 1..n |-> [b \in 1..(Len(flat) \div n) |-> flat[(v - 1) * (Len(flat) \div n) + b]]]

DivRat(p, q) == Lowest(<<p[1] * q[2], p[2] * q[1]>>)

RECURSIVE SumRat(_)
SumRat(row) == IF row = <<>> THEN <<0, 1>> ELSE AddRat(Head(row), SumRat(Tail(row)))

\* line 65: p / reduce_sum(p, axis=1)
normalize(row) == [c \in DOMAIN row |-> DivRat(row[c], SumRat(row))]

\* lines 56-66
guess_label(y, t) ==
    LET logits_y  == Flatten(y)
        p_views   == reshape(logits_y, Len(y))
        p_model_y == [b \in DOMAIN p_views[1] |->
                        [c \in 1..nclass |->
                            reduce_mean([v \in 1..Len(y) |-> p_views[v][b][c]])]]
        sharp     == [b \in DOMAIN p_model_y |->
                        [c \in 1..nclass |-> pow_inv(p_model_y[b][c], t)]]
    IN  [p_target |-> [b \in DOMAIN sharp |-> normalize(sharp[b])],
         p_model  |-> p_model_y]

NoGuess == [p_target |-> <<>>, p_model |-> <<>>]

GuessInit ==
    /\ \E n \in 1..GuessNu, b \in 1..GuessBatch :
         gin \in [1..n -> [1..b -> SoftmaxRows]]
    /\ guess = NoGuess

GuessParked ==
    /\ gin = <<>>
    /\ guess = NoGuess

\* line 94: guess = self.guess_label(tf.split(y, nu), classifier, T=0.5)
GuessLabel ==
    /\ guess = NoGuess
    /\ guess' = guess_label(gin, T)
    /\ UNCHANGED gin
    /\ UNCHANGED <<buildVars, runVars, warmVars>>

GuessStart == BuildParked /\ RunParked /\ WarmParked /\ GuessInit
GuessSpec == GuessStart /\ [][GuessLabel]_vars

BuildStart == BuildInit /\ RunParked /\ WarmParked /\ GuessParked
BuildSpec == BuildStart /\ [][BuildNext]_vars

WarmStart == BuildParked /\ RunParked /\ WarmInit /\ GuessParked
WarmSpec == WarmStart /\ [][UpdateStep]_vars

RunStart == BuildParked /\ RunInit /\ WarmParked /\ GuessParked
RunSpec == RunStart /\ [][RunNext]_vars

\* ------------------------------------------- a second run of the same step
BDone == TrainOpDeps(hp.has_update) \subseteq runB.fired

\* The same step, from the same store and the same batch, run once more.
ExecOpB ==
    /\ pc = "idle"
    /\ stepNo > 0
    /\ \E op \in Ready(runB, hp) : runB' = Exec(runB, op, hp, 1)
    /\ UNCHANGED <<hp, run, pc, stepNo, pre, committed, evalRead>>
    /\ UNCHANGED <<buildVars, warmVars, guessVars>>

FirstStep == stepNo = 0 /\ StartStep

DetNext ==
    \/ FirstStep
    \/ ExecOp
    \/ GroupDone
    \/ ExecOpB

DetSpec == RunStart /\ [][DetNext]_vars

\* ====================================================================== claims
StepCompleted == pc = "idle" /\ stepNo > 0

\* C1: in every execution of a training step, a bundled side effect (and the
\* read the weight decay makes) fires only after every optimizer update of
\* that step has fired.
C1_SideEffectsAfterOptimizer ==
    \A op \in run.fired :
        (op \in PostOps(hp.has_update) \/ op.kind = "wdread") => AdamOps \subseteq run.fired

\* C2: of the update operations the classifier passes register, a run of
\* train_op waits for and executes those of the pass on interleaved batch 0
\* and no other: never one of guess_label's passes or of batches 1..nu.
C2_OnlyBatch0Updates ==
    /\ \A op \in executed : op.kind = "bn" => op.pass = <<"batch", 0>>
    /\ bpc = "built" =>
         \A op \in Range(update_ops) : op \in train_op <=> op.pass = <<"batch", 0>>

C2_Witness ==
    /\ bpc = "built"
    /\ executed = train_op
    /\ \E op \in executed : op.kind = "bn"
    /\ \E op \in Range(update_ops) : op.pass = <<"guess", cfg.nu>>
    /\ \E op \in Range(update_ops) : op.pass = <<"batch", cfg.nu>>

\* C3: the matching weight is w_match * min(step, W) / W with W the warm-up
\* in examples: 0 at step 0, where the total loss is the supervised loss;
\* never below the weight of an earlier step; w_match at step W and at every
\* larger step.
C3_WarmupWeight ==
    LET W    == wcfg.warmup_kimg * 1024
        w(s) == w_match_at(wcfg.w_match, s, wcfg.warmup_kimg)
        min  == IF step < W THEN step ELSE W
    IN  /\ EqRat(w(step), <<wcfg.w_match * min, W>>)
        /\ EqRat(w(0), <<0, 1>>)
        /\ step = 0 => EqRat(TotalLoss(wcfg, step), <<wcfg.loss_xe, 1>>)
        /\ \A k \in 0..(step \div wcfg.batch) : LeqRat(w(k * wcfg.batch), w(step))
        /\ EqRat(w(W), <<wcfg.w_match, 1>>)
        /\ step >= W => EqRat(w(step), <<wcfg.w_match, 1>>)

C3_Witness ==
    /\ wcfg.w_match > 0
    /\ wcfg.loss_l2u > 0
    /\ step > wcfg.warmup_kimg * 1024
    /\ (step - wcfg.batch) < wcfg.warmup_kimg * 1024

ArgMax(row) == {c \in DOMAIN row : \A e \in DOMAIN row : LeqRat(row[e], row[c])}

C5_GuessIsSharpenedMean ==
    guess # NoGuess =>
        \A b \in DOMAIN guess.p_model :
            LET pm   == guess.p_model[b]
                pt   == guess.p_target[b]
                d    == gin[1][b]
                sq   == SumSeq([c \in 1..nclass |-> d[c] * d[c]])
            IN  /\ \A c \in 1..nclass : pt[c][2] > 0 /\ pt[c][1] >= 0
                /\ EqRat(SumRat(pt), <<1, 1>>)
                /\ (\A v \in DOMAIN gin : gin[v][b] = d) =>
                      /\ \A c \in 1..nclass : EqRat(pm[c], <<d[c], SoftDen>>)
                      /\ \A c \in 1..nclass : EqRat(pt[c], <<d[c] * d[c], sq>>)
                      /\ ArgMax(pt) = ArgMax([c \in 1..nclass |-> <<d[c], SoftDen>>])

C5_Witness ==
    /\ guess # NoGuess
    /\ Len(gin) = 2
    /\ Len(gin[1]) = 2
    /\ gin[1][1] = <<2, 1, 1>> /\ gin[2][1] = <<2, 1, 1>>
    /\ gin[1][2] # gin[2][2]

\* C6: the weight decay writes exactly the trainable variables of scope
\* classify whose name holds "kernel", once per step, the value it read
\* times (1 - wd*lr); no other variable is written by it.
ClaimedDecayed(v) ==
    /\ Catalogue[v].trainable
    /\ Catalogue[v].name[1] = "classify"
    /\ \E i \in DOMAIN Catalogue[v].name : Catalogue[v].name[i] = "kernel"

C6_DecayFrame ==
    \A v \in VarIds :
        /\ run.wdCount[v] <= 1
        /\ (run.wdCount[v] > 0 \/ run.writer[v] = "wd") => ClaimedDecayed(v)
        /\ (StepCompleted /\ ClaimedDecayed(v)) => run.wdCount[v] = 1
        /\ run.writer[v] = "wd" =>
             run.store[v] = (run.wdRead[v] * (hp.wd[2] * hp.lr[2] - hp.wd[1] * hp.lr[1]))
                            \div (hp.wd[2] * hp.lr[2])

C6_Witness ==
    /\ StepCompleted
    /\ run.wdCount.kernel = 1
    /\ run.writer.kernel = "wd"
    /\ run.store.kernel # pre.kernel
    /\ run.store.bias # pre.bias

\* C7: a step is built only from a configuration with nu > 0 and a positive
\* warm-up duration.
C7_MalformedNeverBuilt ==
    bpc = "built" => cfg.nu > 0 /\ cfg.warmup_kimg > 0

\* C8: after the second interleave, logits[s] holds the outputs of exactly the
\* examples of mixed stream s, in their order, for every nu and batch size.
C8_RoundTrip ==
    bpc \in {"bundle", "minimize", "return", "built"} =>
        /\ Len(logits) = cfg.nu + 1
        /\ \A s \in 1..(cfg.nu + 1) :
             /\ Len(logits[s]) = cfg.batch
             /\ \A j \in 1..cfg.batch : logits[s][j].of = <<s - 1, j>>

C8_Witness ==
    /\ bpc = "built"
    /\ cfg.batch % (cfg.nu + 1) # 0
    /\ cfg.batch > cfg.nu + 1
    /\ batches[1] # MixedStreams(cfg.batch, cfg.nu)[1]
    /\ \E j \in 1..cfg.batch : logits[1][j].pass # 0

C10_StepIsFunction ==
    (StepCompleted /\ BDone) => run.store = runB.store

====
